---- MODULE Spec2Model ----
(***************************************************************************)
(* Auto-Audit Pro (src/app.py): the batch compliance engine.               *)
(*                                                                         *)
(* Text is a sequence of one-character strings.  Monetary amounts are      *)
(* counted in cents (the regex admits at most two fraction digits, so the  *)
(* float a token parses to is an exact number of cents).                   *)
(***************************************************************************)
EXTENDS Integers, Sequences, FiniteSets, TLC

(***************************************************************************)
(* Bounds of the model.                                                    *)
(***************************************************************************)
\* Longest batch of uploaded documents.
MaxBatch == 2
\* Longest text enumerated exhaustively for the amount detector.
MaxLen == 4

(***************************************************************************)
(* Characters.                                                             *)
(***************************************************************************)
Digits == <<"0", "1", "2", "3", "4", "5", "6", "7", "8", "9">>

Upper == <<"A", "B", "C", "D", "E", "F", "G", "H", "I", "J", "K", "L", "M",
           "N", "O", "P", "Q", "R", "S", "T", "U", "V", "W", "X", "Y", "Z">>

Lower == <<"a", "b", "c", "d", "e", "f", "g", "h", "i", "j", "k", "l", "m",
           "n", "o", "p", "q", "r", "s", "t", "u", "v", "w", "x", "y", "z">>

Range(s) == {s[k] : k \in 1..Len(s)}

DigitChars == Range(Digits)

\* \s, and the characters str.strip() removes
SpaceChars == {" ", "\n", "\t", "\r"}

\* \w: the characters on either side of which \b looks
WordChars == Range(Digits) \cup Range(Upper) \cup Range(Lower) \cup {"_"}

\* [0-9]
IsDigit(c) == c \in DigitChars

IsSpace(c) == c \in SpaceChars

IsWord(c) == c \in WordChars

DigitValue == [c \in DigitChars |-> (CHOOSE k \in 1..10 : Digits[k] = c) - 1]

DigitVal(c) == DigitValue[c]

LowerOf == [c \in Range(Upper) |-> Lower[CHOOSE k \in 1..26 : Upper[k] = c]]

\* the case folding of re.IGNORECASE and of str.lower()
ToLower(c) == IF c \in DOMAIN LowerOf THEN LowerOf[c] ELSE c

\* the character at position p, "" past either end
At(text, p) == IF p >= 1 /\ p <= Len(text) THEN text[p] ELSE ""

(***************************************************************************)
(* extract_financials: the regex dollar_pattern, re.findall and the        *)
(* conversion of each match to a number.                                   *)
(*                                                                         *)
(*   (?:\$|USD)\s*( N1 | N2 )  |  ( N1 )\s*USD                             *)
(*   N1 = [0-9]{1,3}(?:,[0-9]{3})*(?:\.[0-9]{2})?                          *)
(*   N2 = [0-9]+(?:\.[0-9]{2})?                                            *)
(*                                                                         *)
(* Every "End" operator returns the position just after the match, or 0    *)
(* when there is no match at p.                                            *)
(***************************************************************************)
RECURSIVE DigitRun(_, _, _)
\* how many of the next `most` characters from p on are digits (greedy)
DigitRun(text, p, most) ==
    IF most > 0 /\ IsDigit(At(text, p)) THEN 1 + DigitRun(text, p + 1, most - 1)
    ELSE 0

RECURSIVE CommaGroupsEnd(_, _)
\* (?:,[0-9]{3})*  greedy
CommaGroupsEnd(text, p) ==
    IF At(text, p) = "," /\ DigitRun(text, p + 1, 3) = 3
    THEN CommaGroupsEnd(text, p + 4)
    ELSE p

\* (?:\.[0-9]{2})?  greedy
FractionEnd(text, p) ==
    IF At(text, p) = "." /\ DigitRun(text, p + 1, 2) = 2 THEN p + 3 ELSE p

\* N1, greedy
N1End(text, p) ==
    LET k == DigitRun(text, p, 3)
    IN  IF k = 0 THEN 0 ELSE FractionEnd(text, CommaGroupsEnd(text, p + k))

\* N2, greedy
N2End(text, p) ==
    LET k == DigitRun(text, p, Len(text))
    IN  IF k = 0 THEN 0 ELSE FractionEnd(text, p + k)

\* (?:\$|USD)
MarkerEnd(text, p) ==
    IF At(text, p) = "$" THEN p + 1
    ELSE IF At(text, p) = "U" /\ At(text, p + 1) = "S" /\ At(text, p + 2) = "D"
         THEN p + 3
         ELSE 0

RECURSIVE SkipSpace(_, _)
\* \s*
SkipSpace(text, p) ==
    IF IsSpace(At(text, p)) THEN SkipSpace(text, p + 1) ELSE p

NoMatch == [end |-> 0, groups |-> <<<<>>, <<>>>>]

\* First alternative.  Nothing follows the group, so the greedy attempt of
\* the first branch that matches is the match: N2 is tried only when N1
\* fails.
PrefixMatch(text, p) ==
    LET m == MarkerEnd(text, p)
        q == SkipSpace(text, m)
        e == IF N1End(text, q) # 0 THEN N1End(text, q) ELSE N2End(text, q)
    IN  IF m = 0 \/ e = 0 THEN NoMatch
        ELSE [end |-> e, groups |-> <<SubSeq(text, q, e - 1), <<>>>>]

\* Second alternative.  A shorter N1 than the greedy one is followed by a
\* digit, a comma or a period, never by \s*USD, so backtracking into N1
\* finds nothing the greedy attempt does not.
SuffixMatch(text, p) ==
    LET e == N1End(text, p)
        q == SkipSpace(text, e)
    IN  IF e = 0 \/ MarkerEnd(text, q) # q + 3 THEN NoMatch
        ELSE [end |-> q + 3, groups |-> <<<<>>, SubSeq(text, p, e - 1)>>]

\* the pattern tried at position p
MatchAt(text, p) ==
    IF PrefixMatch(text, p).end # 0 THEN PrefixMatch(text, p)
    ELSE SuffixMatch(text, p)

RECURSIVE FindAll(_, _)
\* re.findall: leftmost non-overlapping matches, each as its two groups
FindAll(text, p) ==
    IF p > Len(text) THEN <<>>
    ELSE LET m == MatchAt(text, p)
         IN  IF m.end = 0 THEN FindAll(text, p + 1)
             ELSE <<m.groups>> \o FindAll(text, m.end)

RECURSIVE RemoveCommas(_)
\* val_str.replace(",", "")
RemoveCommas(s) ==
    IF s = <<>> THEN <<>>
    ELSE IF Head(s) = "," THEN RemoveCommas(Tail(s))
         ELSE <<Head(s)>> \o RemoveCommas(Tail(s))

RECURSIVE IntOf(_)
\* the value of a string of digits
IntOf(s) ==
    IF s = <<>> THEN 0
    ELSE 10 * IntOf(SubSeq(s, 1, Len(s) - 1)) + DigitVal(s[Len(s)])

\* float(): digits with an optional two-digit fraction, in cents
ToFloat(s) ==
    IF Len(s) >= 3 /\ s[Len(s) - 2] = "."
    THEN 100 * IntOf(SubSeq(s, 1, Len(s) - 3)) + IntOf(SubSeq(s, Len(s) - 1, Len(s)))
    ELSE 100 * IntOf(s)

RECURSIVE Amounts(_)
\* the loop over the matches
Amounts(matches) ==
    IF matches = <<>> THEN <<>>
    ELSE LET match == Head(matches)
             val_str == IF match[1] # <<>> THEN match[1] ELSE match[2]
         IN  IF val_str # <<>>
             THEN <<ToFloat(RemoveCommas(val_str))>> \o Amounts(Tail(matches))
             ELSE Amounts(Tail(matches))

extract_financials(text) == Amounts(FindAll(text, 1))

(***************************************************************************)
(* The vendor watchlist: the configuration text split into clean names,    *)
(* and the whole-word, case-insensitive search for one name.               *)
(***************************************************************************)
RECURSIVE Split(_, _)
\* s.split(sep)
Split(s, sep) ==
    IF \A k \in 1..Len(s) : s[k] # sep THEN <<s>>
    ELSE LET k == CHOOSE j \in 1..Len(s) :
                      s[j] = sep /\ \A h \in 1..(j - 1) : s[h] # sep
         IN  <<SubSeq(s, 1, k - 1)>> \o Split(SubSeq(s, k + 1, Len(s)), sep)

\* v.strip()
Strip(v) ==
    IF \A k \in 1..Len(v) : IsSpace(v[k]) THEN <<>>
    ELSE LET first == CHOOSE k \in 1..Len(v) :
                          ~IsSpace(v[k]) /\ \A h \in 1..(k - 1) : IsSpace(v[h])
             last  == CHOOSE k \in 1..Len(v) :
                          ~IsSpace(v[k]) /\ \A h \in (k + 1)..Len(v) : IsSpace(v[h])
         IN  SubSeq(v, first, last)

RECURSIVE CleanList(_)
\* [v.strip() for v in lines if v.strip()]
CleanList(lines) ==
    IF lines = <<>> THEN <<>>
    ELSE IF Strip(Head(lines)) # <<>>
         THEN <<Strip(Head(lines))>> \o CleanList(Tail(lines))
         ELSE CleanList(Tail(lines))

ProcessBlacklist(raw) == CleanList(Split(raw, "\n"))

\* \b at position p: exactly one of the characters around it is a word character
WordBoundary(txt, p) == IsWord(At(txt, p - 1)) # IsWord(At(txt, p))

\* re.search(r"\b" + re.escape(bad_vendor) + r"\b", text, re.IGNORECASE)
VendorFound(bad_vendor, txt) ==
    \E p \in 1..(Len(txt) - Len(bad_vendor) + 1) :
        /\ WordBoundary(txt, p)
        /\ \A k \in 1..Len(bad_vendor) :
               ToLower(txt[p + k - 1]) = ToLower(bad_vendor[k])
        /\ WordBoundary(txt, p + Len(bad_vendor))

(***************************************************************************)
(* The risk scoring engine.  A score card is the pair of risk_score and    *)
(* reasons; each rule takes the card and returns it updated.  A reason is  *)
(* the sequence of the string fragments its f-string is made of.           *)
(***************************************************************************)
None == <<>>

RECURSIVE SeqMax(_)
\* max(amounts_found)
SeqMax(s) ==
    IF Len(s) = 1 THEN s[1]
    ELSE LET m == SeqMax(Tail(s)) IN IF s[1] >= m THEN s[1] ELSE m

\* TotalAmount taking the first amount of the document
TotalAmountFirst(amounts) == IF amounts # <<>> THEN amounts[1] ELSE 0

\* Heuristic: the largest dollar amount is the total
TotalAmount(amounts) == IF amounts # <<>> THEN SeqMax(amounts) ELSE 0

RECURSIVE DigitsOf(_)
DigitsOf(n) ==
    IF n < 10 THEN <<Digits[n + 1]>>
    ELSE DigitsOf(n \div 10) \o <<Digits[(n % 10) + 1]>>

RECURSIVE Grouped(_)
\* the "," of the format specification: a comma before every three digits
Grouped(ds) ==
    IF Len(ds) <= 3 THEN ds
    ELSE Grouped(SubSeq(ds, 1, Len(ds) - 3)) \o <<",">>
             \o SubSeq(ds, Len(ds) - 2, Len(ds))

\* f"{total_amount:,.2f}" of an amount in cents
FormatAmount(cents) ==
    Grouped(DigitsOf(cents \div 100))
        \o <<".", Digits[((cents % 100) \div 10) + 1], Digits[(cents % 10) + 1]>>

ErrorMessage(cause) == <<"Error reading PDF: ", cause>>

\* the warning-sign emoji (U+26A0 U+FE0F) and the space before error_msg
WarningSign == "(warning sign) "

NoAmountsReason == <<"Extraction Failed: No dollar amounts detected">>

ThresholdReason(total) ==
    <<"Amount ($">> \o FormatAmount(total) \o <<") exceeds threshold">>

WatchlistReason(bad_vendor) ==
    <<"Vendor '">> \o bad_vendor \o <<"' found on Watchlist">>

\* ErrorCheck with "if" where the code has "elif"
ErrorCheckBoth(card, err, total) ==
    LET first == IF err # None
                 THEN [risk_score |-> card.risk_score + 25,
                       reasons |-> Append(card.reasons, <<WarningSign>> \o err)]
                 ELSE card
    IN  IF total = 0
        THEN [risk_score |-> first.risk_score + 25,
              reasons |-> Append(first.reasons, NoAmountsReason)]
        ELSE first

\* 1. Error Checks (+25 pts)
ErrorCheck(card, err, total) ==
    IF err # None
    THEN [risk_score |-> card.risk_score + 25,
          reasons |-> Append(card.reasons, <<WarningSign>> \o err)]
    ELSE IF total = 0
         THEN [risk_score |-> card.risk_score + 25,
               reasons |-> Append(card.reasons, NoAmountsReason)]
         ELSE card

\* 2. High Value Check (+50 pts); the threshold is in dollars
HighValueCheck(card, total, threshold) ==
    IF total > 100 * threshold
    THEN [risk_score |-> card.risk_score + 50,
          reasons |-> Append(card.reasons, ThresholdReason(total))]
    ELSE card

RECURSIVE BlacklistCheckFirstOnly(_, _, _)
\* BlacklistCheck leaving the loop at the first vendor found
BlacklistCheckFirstOnly(card, blacklist, txt) ==
    IF blacklist = <<>> THEN card
    ELSE IF VendorFound(Head(blacklist), txt)
         THEN [risk_score |-> card.risk_score + 100,
               reasons |-> Append(card.reasons, WatchlistReason(Head(blacklist)))]
         ELSE BlacklistCheckFirstOnly(card, Tail(blacklist), txt)

RECURSIVE BlacklistCheck(_, _, _)
\* 3. Blacklist Check (+100 pts)
BlacklistCheck(card, blacklist, txt) ==
    IF blacklist = <<>> THEN card
    ELSE LET bad_vendor == Head(blacklist)
             hit == IF VendorFound(bad_vendor, txt)
                    THEN [risk_score |-> card.risk_score + 100,
                          reasons |-> Append(card.reasons,
                                             WatchlistReason(bad_vendor))]
                    ELSE card
         IN  BlacklistCheck(hit, Tail(blacklist), txt)

\* StatusDetermination with High Risk from 50 points on
StatusHighAtFifty(score, high) ==
    IF score >= 50 THEN [status |-> "High Risk", high_risk_count |-> high + 1]
    ELSE IF score > 0 THEN [status |-> "Medium Risk", high_risk_count |-> high]
    ELSE [status |-> "Approved", high_risk_count |-> high]

\* StatusDetermination with the scores below 50 taken for safe
StatusLowIsApproved(score, high) ==
    IF score >= 100 THEN [status |-> "High Risk", high_risk_count |-> high + 1]
    ELSE IF score >= 50 THEN [status |-> "Medium Risk", high_risk_count |-> high]
    ELSE [status |-> "Approved", high_risk_count |-> high]

\* StatusDetermination counting the documents of 50 points and more
StatusCountsFromFifty(score, high) ==
    IF score >= 100 THEN [status |-> "High Risk", high_risk_count |-> high + 1]
    ELSE IF score >= 50 THEN [status |-> "Medium Risk", high_risk_count |-> high + 1]
    ELSE IF score > 0 THEN [status |-> "Medium Risk", high_risk_count |-> high]
    ELSE [status |-> "Approved", high_risk_count |-> high]

\* D. Status Determination: the status and the high-risk counter after it
StatusDetermination(score, high) ==
    IF score >= 100 THEN [status |-> "High Risk", high_risk_count |-> high + 1]
    ELSE IF score >= 50 THEN [status |-> "Medium Risk", high_risk_count |-> high]
    ELSE IF score > 0 THEN [status |-> "Medium Risk", high_risk_count |-> high]
    ELSE [status |-> "Approved", high_risk_count |-> high]

RECURSIVE Join(_, _)
\* sep.join(parts): the fragments of the parts with sep between the parts
Join(sep, parts) ==
    IF parts = <<>> THEN <<>>
    ELSE IF Len(parts) = 1 THEN parts[1]
         ELSE parts[1] \o <<sep>> \o Join(sep, Tail(parts))

\* E. the row appended to the audit log
LogRow(name, total, st, score, why) ==
    ("Filename" :> name) @@ ("Total Amount" :> total) @@ ("Status" :> st)
        @@ ("Risk Score" :> score) @@ ("Issues" :> Join("; ", why))

(***************************************************************************)
(* The inputs: page texts, documents, thresholds and watchlist texts.      *)
(***************************************************************************)
\* Invoice Total: $1,234.56
TextInvoiceTotal ==
    <<"I", "n", "v", "o", "i", "c", "e", " ", "T", "o", "t", "a", "l", ":",
      " ", "$", "1", ",", "2", "3", "4", ".", "5", "6">>

\* Payment to Bolton Inc for $10.00
TextBolton ==
    <<"P", "a", "y", "m", "e", "n", "t", " ", "t", "o", " ", "B", "o", "l",
      "t", "o", "n", " ", "I", "n", "c", " ", "f", "o", "r", " ", "$", "1",
      "0", ".", "0", "0">>

\* No dollar values here
TextNoAmounts ==
    <<"N", "o", " ", "d", "o", "l", "l", "a", "r", " ", "v", "a", "l", "u",
      "e", "s", " ", "h", "e", "r", "e">>

\* Boltonville Ave $20
TextBoltonville ==
    <<"B", "o", "l", "t", "o", "n", "v", "i", "l", "l", "e", " ", "A", "v",
      "e", " ", "$", "2", "0">>

\* Total $5 / $90 on the next line
TextKeywordSmaller ==
    <<"T", "o", "t", "a", "l", " ", "$", "5", "\n", "$", "9", "0">>

\* $0.00
TextZero ==
    <<"$", "0", ".", "0", "0">>

\* bad wolf corp and BOLTON.
TextTwoVendors ==
    <<"b", "a", "d", " ", "w", "o", "l", "f", " ", "c", "o", "r", "p", " ",
      "a", "n", "d", " ", "B", "O", "L", "T", "O", "N", ".">>

\* USD 20 paid
TextPaid ==
    <<"U", "S", "D", " ", "2", "0", " ", "p", "a", "i", "d">>

\* $1,0000
TextBadGroup ==
    <<"$", "1", ",", "0", "0", "0", "0">>

\* $500.00
TextFiveHundred ==
    <<"$", "5", "0", "0", ".", "0", "0">>

\* the default of the text area
RawDefault ==
    <<"B", "a", "d", " ", "W", "o", "l", "f", " ", "C", "o", "r", "p", "\n",
      "B", "o", "l", "t", "o", "n", "\n", "S", "u", "s", "p", "i", "c", "i",
      "o", "u", "s", " ", "L", "L", "C">>

\* Bolton on two lines, with blanks
RawRepeated ==
    <<" ", "B", "o", "l", "t", "o", "n", " ", "\n", "\n", "B", "o", "l", "t",
      "o", "n">>

\* A document: its display name, whether pdfplumber.open raises on it, the
\* text of each page (<<>> when extract_text returns None or ""), the page
\* whose extraction raises (0: none) and the message of the exception.
Doc(name, corrupt, pages, failAt, cause) ==
    [name |-> name, corrupt |-> corrupt, pages |-> pages, failAt |-> failAt,
     cause |-> cause]

Documents ==
    { Doc("invoice.pdf", FALSE, <<TextInvoiceTotal>>, 0, ""),
      Doc("bolton.pdf", FALSE, <<TextBolton>>, 0, ""),
      Doc("scan.pdf", FALSE, <<TextNoAmounts>>, 0, ""),
      Doc("torn.pdf", FALSE, <<TextBolton, TextKeywordSmaller>>, 2,
          "page unreadable"),
      Doc("junk.pdf", TRUE, <<>>, 0, "No /Root object"),
      Doc("keyword.pdf", FALSE, <<TextKeywordSmaller>>, 0, ""),
      Doc("long.pdf", FALSE, <<TextTwoVendors, <<>>, TextBoltonville>>, 0, ""),
      Doc("zero.pdf", FALSE, <<TextZero>>, 0, ""),
      Doc("paid.pdf", FALSE, <<TextPaid>>, 0, "") }

\* number_input(min_value=0, value=500): whole dollars, never negative
Thresholds == {0, 500}

RawBlacklists == {RawDefault, RawRepeated, <<>>}

RECURSIVE SeqsUpTo(_, _)
\* the sequences over S of length at most n
SeqsUpTo(S, n) ==
    IF n = 0 THEN {<<>>}
    ELSE LET shorter == SeqsUpTo(S, n - 1)
         IN  shorter \cup {Append(q, x) : q \in {y \in shorter : Len(y) = n - 1},
                                           x \in S}

Batches == SeqsUpTo(Documents, MaxBatch) \ {<<>>}

\* the characters of the exhaustively enumerated texts
Alphabet == {"$", "0", "1", ",", ".", "U", "S", "D", " "}

ShortTexts == SeqsUpTo(Alphabet, MaxLen)

NamedTexts == {TextBadGroup, TextFiveHundred, TextKeywordSmaller,
               TextInvoiceTotal}

(***************************************************************************)
(* The state of one run of the script.                                     *)
(***************************************************************************)
VARIABLES
    uploaded_files,        \* the batch, in upload order
    audit_threshold,       \* Max Transaction Limit ($)
    vendor_blacklist_raw,  \* the text area
    vendor_blacklist,      \* the clean list
    master_audit_log,      \* one row per processed document
    total_processed,
    high_risk_count,
    total_value_audited,
    i,                     \* index of the document in hand (-1: none yet)
    page,                  \* pages of it read so far
    extracted_text,
    error_msg,
    amounts_found,
    total_amount,
    risk_score,
    reasons,
    status,                \* "" until the first document is scored
    progress,              \* numerator and denominator of the progress bar
    metrics,               \* the three KPI cards, <<>> until shown
    pc                     \* "head", "open", "pages", "score", "done"

vars == <<uploaded_files, audit_threshold, vendor_blacklist_raw,
          vendor_blacklist, master_audit_log, total_processed,
          high_risk_count, total_value_audited, i, page, extracted_text,
          error_msg, amounts_found, total_amount, risk_score, reasons,
          status, progress, metrics, pc>>

config == <<uploaded_files, audit_threshold, vendor_blacklist_raw,
            vendor_blacklist>>

scored == <<master_audit_log, high_risk_count, total_value_audited,
            amounts_found, total_amount, risk_score, reasons, status,
            progress>>

\* the state on entering the document loop
Start ==
    /\ vendor_blacklist = ProcessBlacklist(vendor_blacklist_raw)
    /\ master_audit_log = <<>>
    /\ total_processed = 0
    /\ high_risk_count = 0
    /\ total_value_audited = 0
    /\ i = -1
    /\ page = 0
    /\ extracted_text = <<>>
    /\ error_msg = None
    /\ amounts_found = <<>>
    /\ total_amount = 0
    /\ risk_score = 0
    /\ reasons = <<>>
    /\ status = ""
    /\ progress = <<0, Len(uploaded_files)>>
    /\ metrics = <<>>
    /\ pc = "head"

Init ==
    /\ uploaded_files \in Batches
    /\ audit_threshold \in Thresholds
    /\ vendor_blacklist_raw \in RawBlacklists
    /\ Start

\* one single-page document whose text ranges over every short text, and
\* the named texts also as documents that fail to open or to extract
InitFin ==
    /\ \E t \in ShortTexts \cup NamedTexts :
         \/ uploaded_files = <<Doc("text.pdf", FALSE, <<t>>, 0, "")>>
         \/ /\ t \in NamedTexts
            /\ \/ uploaded_files = <<Doc("text.pdf", FALSE, <<t>>, 1, "page unreadable")>>
               \/ uploaded_files = <<Doc("text.pdf", TRUE, <<t>>, 0, "No /Root object")>>
    /\ audit_threshold = 500
    /\ vendor_blacklist_raw = RawDefault
    /\ Start

file == uploaded_files[i + 1]

\* for i, file in enumerate(uploaded_files): the next document, a fresh text
NextDocument ==
    /\ pc = "head"
    /\ i + 1 < Len(uploaded_files)
    /\ i' = i + 1
    /\ page' = 0
    /\ extracted_text' = <<>>
    /\ error_msg' = None
    /\ pc' = "open"
    /\ UNCHANGED <<config, scored, total_processed, metrics>>

\* pdfplumber.open(file) succeeds
OpenPdf ==
    /\ pc = "open"
    /\ ~file.corrupt
    /\ pc' = IF file.pages = <<>> THEN "score" ELSE "pages"
    /\ UNCHANGED <<config, scored, total_processed, metrics, i, page,
                   extracted_text, error_msg>>

\* OpenFails with a handler that moves on to the next document at once
OpenFailsDropped ==
    /\ pc = "open"
    /\ file.corrupt
    /\ error_msg' = ErrorMessage(file.cause)
    /\ extracted_text' = <<>>
    /\ pc' = "head"
    /\ UNCHANGED <<config, scored, total_processed, metrics, i, page>>

\* pdfplumber.open(file) raises: the except clause
OpenFails ==
    /\ pc = "open"
    /\ file.corrupt
    /\ error_msg' = ErrorMessage(file.cause)
    /\ extracted_text' = <<>>
    /\ pc' = "score"
    /\ UNCHANGED <<config, scored, total_processed, metrics, i, page>>

\* one turn of the page loop: the text of the page, when there is any, is
\* appended
ExtractPage ==
    /\ pc = "pages"
    /\ file.failAt # page + 1
    /\ LET txt == file.pages[page + 1]
       IN  extracted_text' = IF txt # <<>> THEN extracted_text \o txt
                             ELSE extracted_text
    /\ page' = page + 1
    /\ pc' = IF page + 1 = Len(file.pages) THEN "score" ELSE "pages"
    /\ UNCHANGED <<config, scored, total_processed, metrics, i, error_msg>>

\* PageFails with a handler that keeps the text of the pages already read
PageFailsKeepsText ==
    /\ pc = "pages"
    /\ file.failAt = page + 1
    /\ error_msg' = ErrorMessage(file.cause)
    /\ pc' = "score"
    /\ UNCHANGED <<config, scored, total_processed, metrics, i, page,
                   extracted_text>>

\* page.extract_text() raises: the except clause discards the text read
PageFails ==
    /\ pc = "pages"
    /\ file.failAt = page + 1
    /\ error_msg' = ErrorMessage(file.cause)
    /\ extracted_text' = <<>>
    /\ pc' = "score"
    /\ UNCHANGED <<config, scored, total_processed, metrics, i, page>>

\* B to E and the progress bar: amounts, total, score, status, log row
ScoreAndLog ==
    /\ pc = "score"
    /\ LET found == IF error_msg = None THEN extract_financials(extracted_text)
                    ELSE <<>>
           total == TotalAmount(found)
           card  == BlacklistCheck(
                        HighValueCheck(
                            ErrorCheck([risk_score |-> 0, reasons |-> <<>>],
                                       error_msg, total),
                            total, audit_threshold),
                        vendor_blacklist, extracted_text)
           det   == StatusDetermination(card.risk_score, high_risk_count)
       IN  /\ amounts_found' = found
           /\ total_amount' = total
           /\ total_value_audited' = total_value_audited + total
           /\ risk_score' = card.risk_score
           /\ reasons' = card.reasons
           /\ status' = det.status
           /\ high_risk_count' = det.high_risk_count
           /\ master_audit_log' =
                  Append(master_audit_log,
                         LogRow(file.name, total, det.status, card.risk_score,
                                card.reasons))
    /\ progress' = <<i + 1, Len(uploaded_files)>>
    /\ pc' = "head"
    /\ UNCHANGED <<config, total_processed, metrics, i, page, extracted_text,
                   error_msg>>

\* 6. the KPI cards, once the loop is over
Dashboard ==
    /\ pc = "head"
    /\ i + 1 = Len(uploaded_files)
    /\ metrics' = <<Len(uploaded_files), total_value_audited, high_risk_count>>
    /\ pc' = "done"
    /\ UNCHANGED <<config, scored, total_processed, i, page, extracted_text,
                   error_msg>>

Next ==
    \/ NextDocument
    \/ OpenPdf
    \/ OpenFails
    \/ ExtractPage
    \/ PageFails
    \/ ScoreAndLog
    \/ Dashboard

Spec == Init /\ [][Next]_vars

SpecFin == InitFin /\ [][Next]_vars

(***************************************************************************)
(* Vocabulary of the properties.                                           *)
(***************************************************************************)
\* a document has just been scored: the per-document variables are its own
Logged == pc \in {"head", "done"} /\ i >= 0

LoopFinished == pc = "done" \/ (pc = "head" /\ i + 1 = Len(uploaded_files))

Rows == 1..Len(master_audit_log)

\* how many fragments of a joined Issues cell are among the given ones
CountOf(issues, fragments) ==
    Cardinality({k \in 1..Len(issues) : issues[k] \in fragments})

WatchlistMarks(issues) == CountOf(issues, {"Vendor '"})

FailureMarks(issues) ==
    CountOf(issues, {"Error reading PDF: ",
                     "Extraction Failed: No dollar amounts detected"})

ThresholdMarks(issues) == CountOf(issues, {"Amount ($"})

\* extraction of the document raises, on opening it or on one of its pages
Fails(d) == d.corrupt \/ d.failAt \in 1..Len(d.pages)

RECURSIVE PageTexts(_)
\* the text of a document whose extraction succeeds: its pages in order
PageTexts(pages) ==
    IF pages = <<>> THEN <<>> ELSE Head(pages) \o PageTexts(Tail(pages))

\* the configured vendors found in the text in hand, in configuration order
MatchedVendors ==
    LET Hit(v) == VendorFound(v, extracted_text)
    IN  SelectSeq(vendor_blacklist, Hit)

RECURSIVE SumTotals(_)
SumTotals(log) ==
    IF log = <<>> THEN 0 ELSE Head(log)["Total Amount"] + SumTotals(Tail(log))

HighRiskRows == {k \in Rows : master_audit_log[k]["Status"] = "High Risk"}

(***************************************************************************)
(* C1.  Once the document loop has finished the audit log holds exactly    *)
(* one row per uploaded document, the k-th row carrying the name of the    *)
(* k-th document, whichever documents failed extraction; and the log only  *)
(* ever grows at its end, so at every moment it is a prefix of the final   *)
(* log.                                                                    *)
(***************************************************************************)
C1_Rows ==
    /\ Len(master_audit_log) <= Len(uploaded_files)
    /\ \A k \in Rows : master_audit_log[k]["Filename"] = uploaded_files[k].name
    /\ pc \in {"head", "done"} => Len(master_audit_log) = i + 1
    /\ LoopFinished => Len(master_audit_log) = Len(uploaded_files)

C1_Grows ==
    /\ Len(master_audit_log') >= Len(master_audit_log)
    /\ SubSeq(master_audit_log', 1, Len(master_audit_log)) = master_audit_log

\* C1: always one row per scored document, in upload order, all of them once
\* the loop is over; and every step leaves the log a prefix of the next log
C1_OneRowPerDocument == [] C1_Rows /\ [][C1_Grows]_vars

\* a finished batch of two whose first document failed to open
C1_Witness ==
    /\ pc = "done"
    /\ Len(uploaded_files) = 2
    /\ uploaded_files[1].corrupt
    /\ ~Fails(uploaded_files[2])
    /\ Len(master_audit_log) = 2
    /\ master_audit_log[1]["Filename"] = "junk.pdf"

(***************************************************************************)
(* C2.  A document's status is High Risk if and only if a watchlist        *)
(* reason is among its reasons, which is if and only if a configured       *)
(* vendor was found in its text: the +25 and +50 rules alone never reach   *)
(* High Risk.                                                              *)
(***************************************************************************)
C2_HighRiskIffBlacklist ==
    /\ \A k \in Rows :
           master_audit_log[k]["Status"] = "High Risk"
               <=> WatchlistMarks(master_audit_log[k]["Issues"]) > 0
    /\ Logged =>
           (status = "High Risk"
               <=> \E j \in 1..Len(vendor_blacklist) :
                       VendorFound(vendor_blacklist[j], extracted_text))

\* one document over the threshold without a vendor, one with a vendor
C2_Witness ==
    /\ Len(master_audit_log) = 2
    /\ master_audit_log[1]["Risk Score"] = 50
    /\ master_audit_log[1]["Status"] = "Medium Risk"
    /\ master_audit_log[2]["Status"] = "High Risk"
    /\ WatchlistMarks(master_audit_log[2]["Issues"]) = 1

(***************************************************************************)
(* C3.  A row whose total amount is 0 carries exactly one extraction-      *)
(* failure reason (the read error or "no dollar amounts detected") and     *)
(* its score holds exactly one +25: 25 plus 100 for each watchlist         *)
(* reason.                                                                 *)
(***************************************************************************)
C3_ZeroTotalFlaggedOnce ==
    \A k \in Rows :
        LET row == master_audit_log[k]
        IN  row["Total Amount"] = 0 =>
                /\ FailureMarks(row["Issues"]) = 1
                /\ ThresholdMarks(row["Issues"]) = 0
                /\ row["Risk Score"] = 25 + 100 * WatchlistMarks(row["Issues"])

\* a failed document, then one whose only amount is $0.00
C3_Witness ==
    /\ Len(master_audit_log) = 2
    /\ Fails(uploaded_files[1])
    /\ master_audit_log[1]["Total Amount"] = 0
    /\ Logged /\ i = 1
    /\ amounts_found = <<0>>
    /\ master_audit_log[2]["Total Amount"] = 0

(***************************************************************************)
(* C4.  As claimed: when an amount lies on a line whose lowercase form     *)
(* contains a total-style keyword, the total is the largest amount of      *)
(* such lines, even when a larger amount stands on another line; only      *)
(* otherwise is it the largest amount of all.                              *)
(* As amended: the total is the largest of all the amounts detected in     *)
(* the text, on whatever line they stand, and 0 when none is detected.     *)
(***************************************************************************)
Keywords ==
    { <<"t", "o", "t", "a", "l">>,
      <<"a", "m", "o", "u", "n", "t", " ", "d", "u", "e">>,
      <<"a", "m", "o", "u", "n", "t", " ", "p", "a", "y", "a", "b", "l", "e">>,
      <<"b", "a", "l", "a", "n", "c", "e", " ", "d", "u", "e">>,
      <<"g", "r", "a", "n", "d", " ", "t", "o", "t", "a", "l">>,
      <<"i", "n", "v", "o", "i", "c", "e", " ", "t", "o", "t", "a", "l">> }

Contains(line, word) ==
    \E p \in 1..(Len(line) - Len(word) + 1) :
        \A k \in 1..Len(word) : ToLower(line[p + k - 1]) = word[k]

RECURSIVE HighConfidence(_)
\* the amounts of the lines that contain a keyword
HighConfidence(lines) ==
    IF lines = <<>> THEN <<>>
    ELSE (IF \E w \in Keywords : Contains(Head(lines), w)
          THEN extract_financials(Head(lines)) ELSE <<>>)
             \o HighConfidence(Tail(lines))

C6_BlacklistAdditive ==
    Logged =>
        LET m == Len(MatchedVendors)
            n == Len(reasons)
        IN  /\ n >= m
            /\ \A k \in 1..m :
                   reasons[n - m + k] =
                       <<"Vendor '">> \o MatchedVendors[k]
                           \o <<"' found on Watchlist">>
            /\ \A k \in 1..(n - m) : reasons[k][1] # "Vendor '"
            /\ risk_score =
                   100 * m
                   + 25 * Cardinality({k \in 1..(n - m) :
                                          reasons[k][1] # "Amount ($"})
                   + 50 * Cardinality({k \in 1..(n - m) :
                                          reasons[k][1] = "Amount ($"})

\* over the threshold and two vendors found: 50 + 100 + 100
C6_Witness ==
    /\ Logged
    /\ Len(MatchedVendors) = 2
    /\ MatchedVendors[1] # MatchedVendors[2]
    /\ Len(reasons) = 3
    /\ risk_score = 250

(***************************************************************************)
(* C7.  The watchlist used for scoring holds trimmed, non-empty, pairwise  *)
(* distinct names, so that a name entered on several lines is evaluated    *)
(* once: at most one reason, and one +100, for it per document.            *)
(***************************************************************************)
\* C7: the clean list is trimmed, non-empty and free of repetitions
C7_BlacklistDistinct ==
    Logged =>
        /\ \A j \in 1..Len(vendor_blacklist) :
               /\ vendor_blacklist[j] # <<>>
               /\ Strip(vendor_blacklist[j]) = vendor_blacklist[j]
        /\ \A j, k \in 1..Len(vendor_blacklist) :
               j # k => vendor_blacklist[j] # vendor_blacklist[k]
        /\ \A j, k \in 1..Len(reasons) :
               (j # k /\ reasons[j][1] = "Vendor '") => reasons[j] # reasons[k]

(***************************************************************************)
(* C8.  A number after "$" or "USD" is recognised only when the whole      *)
(* numeric token is well grouped: "$1,0" and "$1,0000" yield no amount,    *)
(* "$500.00" yields 500.00.                                                *)
(***************************************************************************)
\* C8: no amount from a prefix of a badly grouped token
C8_MalformedTokenRejected ==
    (Logged /\ error_msg = None) =>
        /\ extracted_text = <<"$", "1", ",", "0">> => amounts_found = <<>>
        /\ extracted_text = TextBadGroup => amounts_found = <<>>
        /\ extracted_text = TextFiveHundred => amounts_found = <<50000>>

C10_SummaryAgreesWithLog ==
    /\ pc \in {"head", "done"} =>
           /\ high_risk_count = Cardinality(HighRiskRows)
           /\ total_value_audited = SumTotals(master_audit_log)
    /\ pc = "done" =>
           metrics = <<Len(master_audit_log), SumTotals(master_audit_log),
                       Cardinality(HighRiskRows)>>

\* a finished batch with a Medium Risk row of 50 points and a High Risk row
C10_Witness ==
    /\ pc = "done"
    /\ Len(master_audit_log) = 2
    /\ master_audit_log[1]["Risk Score"] = 50
    /\ master_audit_log[2]["Status"] = "High Risk"
    /\ metrics[3] = 1
    /\ metrics[2] > 0

====
